---- MODULE Spec2Model ----
(***************************************************************************)
(* Model of tasks/deploy.js: the deploy-vcl task of fastly-tools.          *)
(*                                                                         *)
(* One run of the task walks the generator of deploy.js:32-108:            *)
(*   configuration checks, getServices, cloneVersion, getVcl, the fan-out  *)
(*   of deleteVcl, the fan-out of updateVcl, setVclAsMain,                 *)
(*   validateVersion, activateVersion, and the catch handler of 110-118.   *)
(* The remote configuration store (services, versions, files, the active   *)
(* version pointer) is the environment: every remote call either takes     *)
(* effect and resolves, or rejects with an error of the client and leaves  *)
(* the store as it was (a rejected activateVersion may have taken effect). *)
(* The requests of a fan-out that are still on their way when the run      *)
(* bails out may reach the store later, or never.                          *)
(* The log.verbose lines are not modelled (options.verbose is false).      *)
(*                                                                         *)
(* SpecOne is one run against the store; Spec is a sequence of runs, each  *)
(* a process of its own, launched when the process before it has ended.    *)
(* SpecOneFair is SpecOne with a client that settles every call in the     *)
(* end; SpecConc is runs on one service with their steps interleaved.      *)
(***************************************************************************)
EXTENDS Integers, Sequences, FiniteSets, TLC

\* ---------------------------------------------------------------- bounds
MaxRuns == 2
MaxFiles == 2

Runs == 1..MaxRuns
AllNames == <<"main.vcl", "edge.vcl", "geo.vcl", "waf.vcl">>
Names == {AllNames[i] : i \in 1..MaxFiles}

\* ------------------------------------------------------- JavaScript values
NULL == "<null>"
UNSET == "<undefined>"
Falsy(v) == v \in {NULL, UNSET, ""}

VCL_VALIDATION_ERROR == "Symbol()"

\* new Error(message): an error object with neither type nor validation
NewError(message) ==
    [name |-> "Error", message |-> message, type |-> UNSET, validation |-> <<>>]

\* the errors the fastly client rejects a call with
RemoteErrors == {NewError("ECONNRESET"), NewError("500 Internal Server Error")}

\* reading .version of the undefined that services.find returned
TypeErrorVersion ==
    [name |-> "TypeError", message |-> "Cannot read property 'version' of undefined",
     type |-> UNSET, validation |-> <<>>]

\* err.stack: the error's name and message (the frames carry no program state)
Stack(err) == <<err.name, err.message>>

\* one line of the logger
Line(level, text, payload) == [level |-> level, text |-> text, payload |-> payload]

\* ------------------------------------------------------------ remote store
Services == {"svc1", "svc2"}
ServiceName(id) == IF id = "svc1" THEN "www" ELSE "api"

File(name, content) == [name |-> name, content |-> content]
NamesOf(fileset) == {f.name : f \in fileset}

\* the validation responses of the remote store
Diagnostics == {"unknown variable X", "syntax error"}
ValidationResponses ==
    {[status |-> "ok", diagnostics |-> ""]}
        \cup {[status |-> "error", diagnostics |-> d] : d \in Diagnostics}

\* ------------------------------------------------------------------ inputs
\* (opts.service, process.env[opts.service]) as the command line and the
\* environment give them; "SVC_VAR" is the name of an environment variable
ServiceInputs ==
    {<<NULL, UNSET>>, <<"", UNSET>>, <<"svc1", UNSET>>, <<"ghost", UNSET>>,
     <<"SVC_VAR", UNSET>>, <<"SVC_VAR", "">>, <<"SVC_VAR", "svc1">>,
     <<"SVC_VAR", "svc2">>}
ApiKeys == {UNSET, "", "key"}
Folders == {UNSET, "vcl/"}

\* what loadVcl returns for run r: any set of files, marked with the run
Content(r) == ToString(r)
SourceSets(r) == {{File(n, Content(r)) : n \in S} : S \in SUBSET Names}

VARIABLES
    run,        \* run[r]: the local state of the r-th invocation of the task
    active,     \* active[s]: the active version number of service s
    versions,   \* versions[s][v]: the file set of version v of service s
    mainOf,     \* mainOf[s][v]: the main file of version v, or UNSET
    inflight,   \* requests of a fan-out the process no longer waits for
    abandoned   \* history: <<service, version>> cloned by a run that failed

vars == <<run, active, versions, mainOf, inflight, abandoned>>

Idle ==
    [pc |-> "idle", folder |-> UNSET, service |-> NULL, envService |-> UNSET,
     apiKey |-> UNSET, main |-> "main.vcl", vcls |-> {},
     serviceId |-> UNSET, activeVersion |-> 0, newVersion |-> 0,
     oldVcl |-> {}, pending |-> {}, deleted |-> {}, uploaded |-> {},
     validationResponse |-> <<>>, err |-> <<>>,
     calls |-> <<>>, log |-> <<>>, exited |-> UNSET,
     \* history: the step and file the run failed at, the active versions when
     \* the run was launched, the version the store made for its clone
     failedAt |-> "none", failedFile |-> UNSET,
     activeAtStart |-> <<>>, cloned |-> 0]

\* the local state of a process that has ended
Gone == [Idle EXCEPT !.pc = "gone"]

Terminal(r) == run[r].pc \in {"done", "failed"}

Init ==
    /\ run = [r \in Runs |-> Idle]
    /\ active = [s \in Services |-> IF s = "svc1" THEN 1 ELSE 2]
    /\ \E S \in SUBSET Names :
         versions = [s \in Services |->
                        IF s = "svc1" THEN << {File(n, Content(0)) : n \in S} >>
                        ELSE << {}, {File("main.vcl", Content(0))} >>]
    /\ mainOf = [s \in Services |->
                    IF s = "svc1"
                    THEN << IF "main.vcl" \in NamesOf(versions[s][1])
                            THEN "main.vcl" ELSE UNSET >>
                    ELSE << UNSET, "main.vcl" >>]
    /\ inflight = {}
    /\ abandoned = {}
\* ------------------------------------------------------------- the client
\* one call of the fastly client, as the remote store sees it
Call(op, version, name, content) ==
    [op |-> op, version |-> version, name |-> name, content |-> content]

\* the names of S in the order of the list they came in
Ordered(S) == SelectSeq(AllNames, LAMBDA n : n \in S)

ContentOf(fileset, n) == (CHOOSE f \in fileset : f.name = n).content

\* require('fastly')(fastlyApiKey, encodeURIComponent(serviceId)): the service
\* every call of the client is scoped to (the ids here hold no escaped character)
ClientService(rr) == rr.serviceId

\* the call the generator is waiting for, and the call of a fan-out for file n
LastCall(rr) == rr.calls[Len(rr.calls)]
FanCall(rr, op, n) ==
    rr.calls[CHOOSE i \in 1..Len(rr.calls) : rr.calls[i].op = op /\ rr.calls[i].name = n]

\* ------------------------------------------- the remote store's operations
CloneIn(vs, s, v) == [vs EXCEPT ![s] = Append(@, @[v])]
DeleteIn(vs, s, v, n) == [vs EXCEPT ![s][v] = {f \in @ : f.name # n}]
UploadIn(vs, s, v, n, c) ==
    [vs EXCEPT ![s][v] = {f \in @ : f.name # n} \cup {File(n, c)}]
NextNumber(vs, s) == Len(vs[s]) + 1
HasFile(vs, s, v, n) == n \in NamesOf(vs[s][v])
FilesOf(vs, s, v) == NamesOf(vs[s][v])
MainAfterDelete(ms, s, v, n) == [ms EXCEPT ![s][v] = IF @ = n THEN UNSET ELSE @]

\* getServices(): the services of the account with their active versions
ServiceList == {[id |-> s, name |-> ServiceName(s), version |-> active[s]] : s \in Services}
\* ----------------------------------------------------- the catch handler
\* deploy.js:110-116: what the handler logs for err
HandlerLog(err) ==
    IF ~Falsy(err.type) /\ err.type = VCL_VALIDATION_ERROR
    THEN << Line("error", <<"VCL Validation Error">>, <<>>),
            Line("error", <<>>, err.validation) >>
    ELSE << Line("error", Stack(err), <<>>) >>

\* mutant of Catch: the handler logs the error and does not call exit
CatchNoExit(rr, err, at, file) ==
    [rr EXCEPT !.pc = "failed", !.err = <<err>>,
               !.log = @ \o HandlerLog(err),
               !.pending = @ \ {file},
               !.failedAt = at, !.failedFile = file]

\* mutant of Catch: the handler activates the version cloned from again
CatchCompensates(rr, err, at, file) ==
    [rr EXCEPT !.pc = "failed", !.err = <<err>>,
               !.log = @ \o HandlerLog(err), !.exited = "Bailing...",
               !.pending = @ \ {file},
               !.calls = IF rr.cloned # 0
                         THEN Append(@, Call("activateVersion", rr.activeVersion, UNSET, UNSET))
                         ELSE @,
               !.failedAt = at, !.failedFile = file]

\* deploy.js:110-118: the generator threw err at step `at` (on file `file`)
Catch(rr, err, at, file) ==
    [rr EXCEPT !.pc = "failed", !.err = <<err>>,
               !.log = @ \o HandlerLog(err), !.exited = "Bailing...",
               !.pending = @ \ {file},
               !.failedAt = at, !.failedFile = file]

\* the requests of rr's fan-out still on their way when file's request failed
Orphans(rr, file) ==
    LET op == IF rr.pc = "deleting" THEN "deleteVcl" ELSE "updateVcl"
    IN  {[service |-> ClientService(rr), call |-> FanCall(rr, op, n)]
            : n \in rr.pending \ {file}}

\* run r ends in the catch handler; the new version, if any, is abandoned
Throw(r, err, at, file) ==
    /\ run' = [run EXCEPT ![r] = Catch(@, err, at, file)]
    /\ inflight' = inflight \cup Orphans(run[r], file)
    /\ abandoned' = IF run[r].cloned # 0
                    THEN abandoned \cup {<<ClientService(run[r]), run[r].cloned>>}
                    ELSE abandoned

\* --------------------------------------------------------- the generator
\* mutant of ResolveServiceId: the environment is not looked at
ResolveServiceIdLiteral(service, envService) == service

\* deploy.js:42: process.env[opts.service] || opts.service
ResolveServiceId(service, envService) ==
    IF Falsy(envService) THEN service ELSE envService

\* mutant of ConfigError: the check of FASTLY_APIKEY is missing
ConfigErrorNoKey(rr) ==
    IF Falsy(rr.service)
    THEN << NewError("the service parameter is required set to the service id of a environment variable name") >>
    ELSE IF Falsy(ResolveServiceId(rr.service, rr.envService))
    THEN << NewError("No service ") >>
    ELSE <<>>

\* deploy.js:33-46: the configuration error thrown before the client is made,
\* as a sequence of 0 or 1 errors
ConfigError(rr) ==
    IF Falsy(rr.service)
    THEN << NewError("the service parameter is required set to the service id of a environment variable name") >>
    ELSE IF Falsy(rr.apiKey)
    THEN << NewError("FASTLY_APIKEY not found") >>
    ELSE IF Falsy(ResolveServiceId(rr.service, rr.envService))
    THEN << NewError("No service ") >>
    ELSE <<>>

\* deploy.js:131-137 and 17-58: the command's action up to the first yield;
\* vcls is what loadVcl returns at line 55
Task(rr, vcls) ==
    IF Falsy(rr.folder)
    THEN [rr EXCEPT !.pc = "failed", !.failedAt = "usage",
                    !.exited = "Please provide a folder where the .vcl is located"]
    ELSE IF ConfigError(rr) # <<>>
    THEN Catch(rr, ConfigError(rr)[1], "config", UNSET)
    ELSE [rr EXCEPT !.pc = "getServices",
                    !.serviceId = ResolveServiceId(rr.service, rr.envService),
                    !.vcls = vcls,
                    !.calls = <<Call("getServices", 0, UNSET, UNSET)>>]

\* deploy.js:58: services.find(s => s.id === serviceId), as a set of 0 or 1
FindService(services, serviceId) == {s \in services : s.id = serviceId}

\* deploy.js:59,63: the version the clone is taken from
CloneSource(service) == service.version

\* mutant of NewVersionOf: the version before the one the clone returned
NewVersionStale(cloneResponse) == cloneResponse.number - 1

\* deploy.js:65: the version every later call is made on
NewVersionOf(cloneResponse) == cloneResponse.number

\* mutant of JoinDone: the fan-out is not waited for
JoinNone(pending) == TRUE

\* mutant of JoinDone: the join never resolves
JoinNever(pending) == FALSE

\* deploy.js:70,78: Promise.all resolves when no promise of the fan-out is pending
JoinDone(pending) == pending = {}

\* mutant of IssueSetMain: the main file is not set, validation comes next
IssueSetMainSkip(rr) ==
    [rr EXCEPT !.pc = "validate",
               !.calls = Append(@, Call("validateVersion", rr.newVersion, UNSET, UNSET))]

\* deploy.js:86-88: the step after the uploads
IssueSetMain(rr) ==
    [rr EXCEPT !.pc = "setMain",
               !.log = Append(@, Line("info", <<"Set as the main entry point", rr.main>>, <<>>)),
               !.calls = Append(@, Call("setVclAsMain", rr.newVersion, rr.main, UNSET))]

\* mutant of UploadCalls: the content of the file is not passed on
UploadCallsNoContent(rr) ==
    LET names == Ordered(NamesOf(rr.vcls))
    IN  [i \in 1..Len(names) |-> Call("updateVcl", rr.newVersion, names[i], UNSET)]

\* mutant of UploadCalls: every file is uploaded twice
UploadCallsTwice(rr) ==
    LET names == Ordered(NamesOf(rr.vcls))
        once == [i \in 1..Len(names) |->
                    Call("updateVcl", rr.newVersion, names[i], ContentOf(rr.vcls, names[i]))]
    IN  once \o once

\* mutant of UploadCalls: the files are uploaded to the version cloned from
UploadCallsBaseline(rr) ==
    LET names == Ordered(NamesOf(rr.vcls))
    IN  [i \in 1..Len(names) |->
            Call("updateVcl", rr.activeVersion, names[i], ContentOf(rr.vcls, names[i]))]

\* deploy.js:78-84: vcls.map(vcl => fastly.updateVcl(newVersion, {name, content}))
UploadCalls(rr) ==
    LET names == Ordered(NamesOf(rr.vcls))
    IN  [i \in 1..Len(names) |->
            Call("updateVcl", rr.newVersion, names[i], ContentOf(rr.vcls, names[i]))]

\* deploy.js:74-84: the step after the deletes; an empty fan-out is done at once
IssueUploads(rr) ==
    LET r1 == [rr EXCEPT !.pc = "uploading", !.pending = NamesOf(rr.vcls),
                         !.log = @ \o << Line("info", <<"Deleted old vcl">>, <<>>),
                                         Line("info", <<"Uploading new VCL">>, <<>>) >>,
                         !.calls = @ \o UploadCalls(rr)]
    IN  IF JoinDone(r1.pending) THEN IssueSetMain(r1) ELSE r1

\* mutant of DeleteCalls: the files are deleted from the version cloned from
DeleteCallsBaseline(rr, oldVcl) ==
    LET names == Ordered(oldVcl)
    IN  [i \in 1..Len(names) |-> Call("deleteVcl", rr.activeVersion, names[i], UNSET)]

\* deploy.js:70-73: oldVcl.map(vcl => fastly.deleteVcl(newVersion, vcl.name))
DeleteCalls(rr, oldVcl) ==
    LET names == Ordered(oldVcl)
    IN  [i \in 1..Len(names) |-> Call("deleteVcl", rr.newVersion, names[i], UNSET)]

\* mutant of IssueDeletes: the inherited files are not deleted
IssueDeletesNone(rr, oldVcl) == IssueUploads([rr EXCEPT !.oldVcl = oldVcl])

\* deploy.js:69-73: the step after getVcl
IssueDeletes(rr, oldVcl) ==
    LET r1 == [rr EXCEPT !.pc = "deleting", !.oldVcl = oldVcl, !.pending = oldVcl,
                         !.calls = @ \o DeleteCalls(rr, oldVcl)]
    IN  IF JoinDone(r1.pending) THEN IssueUploads(r1) ELSE r1

\* mutant of LooksOk: any validation response activates
LooksOkAlways(validationResponse) == TRUE

\* deploy.js:99: the guard of activateVersion
LooksOk(validationResponse) == validationResponse.status = "ok"

\* mutant of IssueActivate: the version the clone was taken from is activated
IssueActivateBaseline(rr) ==
    [rr EXCEPT !.pc = "activate",
               !.log = Append(@, Line("info", <<"Version looks ok", ToString(rr.newVersion)>>, <<>>)),
               !.calls = Append(@, Call("activateVersion", rr.activeVersion, UNSET, UNSET))]

\* deploy.js:100-101: the step after a validation that looks ok
IssueActivate(rr) ==
    [rr EXCEPT !.pc = "activate",
               !.log = Append(@, Line("info", <<"Version looks ok", ToString(rr.newVersion)>>, <<>>)),
               !.calls = Append(@, Call("activateVersion", rr.newVersion, UNSET, UNSET))]

\* mutant of ValidateCatch: the error built in the catch is the one thrown
ValidateCatchWrapped(err) ==
    LET error == [NewError("VCL Validation Error")
                    EXCEPT !.type = VCL_VALIDATION_ERROR, !.validation = <<err>>]
    IN  error

\* deploy.js:93-98: what the catch of validateVersion throws for err
ValidateCatch(err) ==
    LET error == [NewError("VCL Validation Error")
                    EXCEPT !.type = VCL_VALIDATION_ERROR, !.validation = <<err>>]
    IN  err

\* ------------------------------------------------------------- the actions
\* deploy.js:131-137, 17-58: run r is launched; the runs come one after the
\* other, each in a process of its own
Launch(r) ==
    /\ run[r].pc = "idle"
    /\ \A q \in 1..(r - 1) : run[q] = Gone
    /\ \E folder \in Folders, si \in ServiceInputs, key \in ApiKeys,
          main \in Names, vcls \in SourceSets(r) :
         LET rr == [Idle EXCEPT !.folder = folder, !.service = si[1],
                                !.envService = si[2], !.apiKey = key,
                                !.main = main, !.activeAtStart = <<active>>]
         IN  run' = [run EXCEPT ![r] = Task(rr, vcls)]
    /\ UNCHANGED <<active, versions, mainOf, inflight, abandoned>>

\* deploy.js:106-108, 117: the process of run r ends, and its locals with it
Exit(r) ==
    /\ Terminal(r)
    /\ run' = [run EXCEPT ![r] = Gone]
    /\ UNCHANGED <<active, versions, mainOf, inflight, abandoned>>

\* deploy.js:58-63: getServices resolves; the service is looked up and the
\* clone of its version requested
GetServicesResolves(r) ==
    /\ run[r].pc = "getServices"
    /\ LET found == FindService(ServiceList, run[r].serviceId)
       IN  IF found = {}
           THEN Throw(r, TypeErrorVersion, "resolve", UNSET)
           ELSE LET service == CHOOSE s \in found : TRUE
                    activeVersion == CloneSource(service)
                IN  /\ run' = [run EXCEPT ![r].pc = "clone",
                                          ![r].activeVersion = activeVersion,
                                          ![r].calls = Append(@, Call("cloneVersion", activeVersion, UNSET, UNSET))]
                    /\ UNCHANGED <<inflight, abandoned>>
    /\ UNCHANGED <<active, versions, mainOf>>

GetServicesRejects(r) ==
    /\ run[r].pc = "getServices"
    /\ \E e \in RemoteErrors : Throw(r, e, "resolve", UNSET)
    /\ UNCHANGED <<active, versions, mainOf>>

\* deploy.js:63-69: cloneVersion resolves with the number of the new version
CloneResolves(r) ==
    /\ run[r].pc = "clone"
    /\ LET s == ClientService(run[r])
           c == LastCall(run[r])
           cloneResponse == [number |-> NextNumber(versions, s)]
           newVersion == NewVersionOf(cloneResponse)
       IN  /\ versions' = CloneIn(versions, s, c.version)
           /\ mainOf' = CloneIn(mainOf, s, c.version)
           /\ run' = [run EXCEPT ![r].pc = "getVcl",
                                 ![r].newVersion = newVersion,
                                 ![r].cloned = cloneResponse.number,
                                 ![r].log = Append(@, Line("info", <<"Cloned new version">>, <<>>)),
                                 ![r].calls = Append(@, Call("getVcl", newVersion, UNSET, UNSET))]
    /\ UNCHANGED <<active, inflight, abandoned>>

CloneRejects(r) ==
    /\ run[r].pc = "clone"
    /\ \E e \in RemoteErrors : Throw(r, e, "clone", UNSET)
    /\ UNCHANGED <<active, versions, mainOf>>

\* deploy.js:69-73: getVcl resolves with the files of the version asked for
GetVclResolves(r) ==
    /\ run[r].pc = "getVcl"
    /\ LET oldVcl == FilesOf(versions, ClientService(run[r]), LastCall(run[r]).version)
       IN  run' = [run EXCEPT ![r] = IssueDeletes(@, oldVcl)]
    /\ UNCHANGED <<active, versions, mainOf, inflight, abandoned>>

GetVclRejects(r) ==
    /\ run[r].pc = "getVcl"
    /\ \E e \in RemoteErrors : Throw(r, e, "list", UNSET)
    /\ UNCHANGED <<active, versions, mainOf>>

\* deploy.js:70-74: one deleteVcl of the fan-out resolves; Promise.all
\* resolves with the last of them
DeleteResolves(r, n) ==
    /\ run[r].pc = "deleting"
    /\ n \in run[r].pending
    /\ LET s == ClientService(run[r])
           c == FanCall(run[r], "deleteVcl", n)
           r1 == [run[r] EXCEPT !.pending = @ \ {n}, !.deleted = @ \cup {n}]
       IN  /\ versions' = DeleteIn(versions, s, c.version, c.name)
           /\ mainOf' = MainAfterDelete(mainOf, s, c.version, c.name)
           /\ run' = [run EXCEPT ![r] = IF JoinDone(r1.pending) THEN IssueUploads(r1) ELSE r1]
    /\ UNCHANGED <<active, inflight, abandoned>>

\* deploy.js:70-73: one deleteVcl rejects, and Promise.all with it
DeleteRejects(r, n) ==
    /\ run[r].pc = "deleting"
    /\ n \in run[r].pending
    /\ \E e \in RemoteErrors : Throw(r, e, "delete", n)
    /\ UNCHANGED <<active, versions, mainOf>>

\* deploy.js:78-88: one updateVcl of the fan-out resolves
UploadResolves(r, n) ==
    /\ run[r].pc = "uploading"
    /\ n \in run[r].pending
    /\ LET s == ClientService(run[r])
           c == FanCall(run[r], "updateVcl", n)
           r1 == [run[r] EXCEPT !.pending = @ \ {n}, !.uploaded = @ \cup {n}]
       IN  /\ versions' = UploadIn(versions, s, c.version, c.name, c.content)
           /\ run' = [run EXCEPT ![r] = IF JoinDone(r1.pending) THEN IssueSetMain(r1) ELSE r1]
    /\ UNCHANGED <<active, mainOf, inflight, abandoned>>

\* deploy.js:78-84: one updateVcl rejects, and Promise.all with it
UploadRejects(r, n) ==
    /\ run[r].pc = "uploading"
    /\ n \in run[r].pending
    /\ \E e \in RemoteErrors : Throw(r, e, "upload", n)
    /\ UNCHANGED <<active, versions, mainOf>>

\* deploy.js:88-92: setVclAsMain resolves (the store knows the file)
SetMainResolves(r) ==
    /\ run[r].pc = "setMain"
    /\ LET s == ClientService(run[r])
           c == LastCall(run[r])
       IN  /\ HasFile(versions, s, c.version, c.name)
           /\ mainOf' = [mainOf EXCEPT ![s][c.version] = c.name]
           /\ run' = [run EXCEPT ![r].pc = "validate",
                                 ![r].calls = Append(@, Call("validateVersion", run[r].newVersion, UNSET, UNSET))]
    /\ UNCHANGED <<active, versions, inflight, abandoned>>

SetMainRejects(r) ==
    /\ run[r].pc = "setMain"
    /\ \E e \in RemoteErrors : Throw(r, e, "setMain", UNSET)
    /\ UNCHANGED <<active, versions, mainOf>>

\* deploy.js:92-104: validateVersion resolves with a status
ValidateResolves(r) ==
    /\ run[r].pc = "validate"
    /\ \E validationResponse \in ValidationResponses :
         LET r1 == [run[r] EXCEPT !.validationResponse = <<validationResponse>>]
         IN  IF LooksOk(validationResponse)
             THEN /\ run' = [run EXCEPT ![r] = IssueActivate(r1)]
                  /\ UNCHANGED <<inflight, abandoned>>
             ELSE /\ run' = [run EXCEPT ![r] =
                               Catch(r1, NewError("VCL failed validation for some unknown reason"),
                                     "validateStatus", UNSET)]
                  /\ inflight' = inflight
                  /\ abandoned' = abandoned \cup {<<ClientService(r1), r1.cloned>>}
    /\ UNCHANGED <<active, versions, mainOf>>

\* deploy.js:92-98: validateVersion rejects
ValidateRejects(r) ==
    /\ run[r].pc = "validate"
    /\ \E e \in RemoteErrors : Throw(r, ValidateCatch(e), "validateCall", UNSET)
    /\ UNCHANGED <<active, versions, mainOf>>

\* deploy.js:101-107: activateVersion resolves
ActivateResolves(r) ==
    /\ run[r].pc = "activate"
    /\ active' = [active EXCEPT ![ClientService(run[r])] = LastCall(run[r]).version]
    /\ run' = [run EXCEPT ![r].pc = "done",
                          ![r].log = @ \o << Line("success", <<"Your VCL has been deployed.  Have a nice cup of tea and relax">>, <<>>),
                                            Line("art", <<"tea", "success">>, <<>>) >>]
    /\ UNCHANGED <<versions, mainOf, inflight, abandoned>>

\* deploy.js:101: activateVersion rejects; the store may have activated the
\* version all the same
ActivateRejects(r) ==
    /\ run[r].pc = "activate"
    /\ \E e \in RemoteErrors : Throw(r, e, "activate", UNSET)
    /\ \/ UNCHANGED active
       \/ active' = [active EXCEPT ![ClientService(run[r])] = LastCall(run[r]).version]
    /\ UNCHANGED <<versions, mainOf>>

\* a request of a fan-out that lost its process reaches the store
LateApply(q) ==
    /\ q \in inflight
    /\ inflight' = inflight \ {q}
    /\ IF q.call.op = "deleteVcl"
       THEN /\ versions' = DeleteIn(versions, q.service, q.call.version, q.call.name)
            /\ mainOf' = MainAfterDelete(mainOf, q.service, q.call.version, q.call.name)
       ELSE /\ versions' = UploadIn(versions, q.service, q.call.version, q.call.name, q.call.content)
            /\ UNCHANGED mainOf
    /\ UNCHANGED <<run, active, abandoned>>

Next ==
    \/ \E r \in Runs : Launch(r)
    \/ \E r \in Runs : Exit(r)
    \/ \E r \in Runs : GetServicesResolves(r)
    \/ \E r \in Runs : GetServicesRejects(r)
    \/ \E r \in Runs : CloneResolves(r)
    \/ \E r \in Runs : CloneRejects(r)
    \/ \E r \in Runs : GetVclResolves(r)
    \/ \E r \in Runs : GetVclRejects(r)
    \/ \E r \in Runs, n \in Names : DeleteResolves(r, n)
    \/ \E r \in Runs, n \in Names : DeleteRejects(r, n)
    \/ \E r \in Runs, n \in Names : UploadResolves(r, n)
    \/ \E r \in Runs, n \in Names : UploadRejects(r, n)
    \/ \E r \in Runs : SetMainResolves(r)
    \/ \E r \in Runs : SetMainRejects(r)
    \/ \E r \in Runs : ValidateResolves(r)
    \/ \E r \in Runs : ValidateRejects(r)
    \/ \E r \in Runs : ActivateResolves(r)
    \/ \E r \in Runs : ActivateRejects(r)
    \/ \E q \in inflight : LateApply(q)

\* a sequence of runs against the store, each launched when the one before
\* has ended
Spec == Init /\ [][Next]_vars

\* one run against the store, no other deployment beside it
NextOne ==
    \/ Launch(1)
    \/ Exit(1)
    \/ GetServicesResolves(1)
    \/ GetServicesRejects(1)
    \/ CloneResolves(1)
    \/ CloneRejects(1)
    \/ GetVclResolves(1)
    \/ GetVclRejects(1)
    \/ \E n \in Names : DeleteResolves(1, n)
    \/ \E n \in Names : DeleteRejects(1, n)
    \/ \E n \in Names : UploadResolves(1, n)
    \/ \E n \in Names : UploadRejects(1, n)
    \/ SetMainResolves(1)
    \/ SetMainRejects(1)
    \/ ValidateResolves(1)
    \/ ValidateRejects(1)
    \/ ActivateResolves(1)
    \/ ActivateRejects(1)
    \/ \E q \in inflight : LateApply(q)

SpecOne == Init /\ [][NextOne]_vars

\* deploy.js:131-137, 17-58: run r is launched on service svc1 with a folder
\* and a credential, whatever the other runs are doing: no lock is taken
Deploy(r) ==
    /\ run[r].pc = "idle"
    /\ \E main \in Names, vcls \in SourceSets(r) :
         LET rr == [Idle EXCEPT !.folder = "vcl/", !.service = "svc1",
                                !.apiKey = "key", !.main = main,
                                !.activeAtStart = <<active>>]
         IN  run' = [run EXCEPT ![r] = Task(rr, vcls)]
    /\ UNCHANGED <<active, versions, mainOf, inflight, abandoned>>

NextConc ==
    \/ \E r \in Runs : Deploy(r)
    \/ \E r \in Runs : GetServicesResolves(r)
    \/ \E r \in Runs : GetServicesRejects(r)
    \/ \E r \in Runs : CloneResolves(r)
    \/ \E r \in Runs : CloneRejects(r)
    \/ \E r \in Runs : GetVclResolves(r)
    \/ \E r \in Runs : GetVclRejects(r)
    \/ \E r \in Runs, n \in Names : DeleteResolves(r, n)
    \/ \E r \in Runs, n \in Names : DeleteRejects(r, n)
    \/ \E r \in Runs, n \in Names : UploadResolves(r, n)
    \/ \E r \in Runs, n \in Names : UploadRejects(r, n)
    \/ \E r \in Runs : SetMainResolves(r)
    \/ \E r \in Runs : SetMainRejects(r)
    \/ \E r \in Runs : ValidateResolves(r)
    \/ \E r \in Runs : ValidateRejects(r)
    \/ \E r \in Runs : ActivateResolves(r)
    \/ \E r \in Runs : ActivateRejects(r)
    \/ \E q \in inflight : LateApply(q)

\* runs of separate processes against the same service, their steps
\* interleaved in any order
SpecConc == Init /\ [][NextConc]_vars

\* the client settles a call run r is waiting for
Respond(r) ==
    \/ GetServicesResolves(r)
    \/ GetServicesRejects(r)
    \/ CloneResolves(r)
    \/ CloneRejects(r)
    \/ GetVclResolves(r)
    \/ GetVclRejects(r)
    \/ \E n \in Names : DeleteResolves(r, n)
    \/ \E n \in Names : DeleteRejects(r, n)
    \/ \E n \in Names : UploadResolves(r, n)
    \/ \E n \in Names : UploadRejects(r, n)
    \/ SetMainResolves(r)
    \/ SetMainRejects(r)
    \/ ValidateResolves(r)
    \/ ValidateRejects(r)
    \/ ActivateResolves(r)
    \/ ActivateRejects(r)

\* one run against a client every call of which is settled in the end, and
\* the event loop of the process, which then resumes the generator
SpecOneFair == SpecOne /\ WF_vars(Respond(1))
\* ==================================================================== claims
\* the calls of run r with operation op, and the set of their file names
CallsOf(r, op) == {i \in 1..Len(run[r].calls) : run[r].calls[i].op = op}
CallNames(r, op) == {run[r].calls[i].name : i \in CallsOf(r, op)}
Ops(r) == [i \in 1..Len(run[r].calls) |-> run[r].calls[i].op]
Repeat(x, k) == [i \in 1..k |-> x]
HasLine(r, level) == \E i \in 1..Len(run[r].log) : run[r].log[i].level = level
Started(r) == run[r].pc \notin {"idle", "gone"}
Mutating == {"deleteVcl", "updateVcl", "setVclAsMain", "validateVersion", "activateVersion"}

\* a step from clone through validation has failed in run r: a call was
\* rejected, or validation answered with a status other than ok
FailedBeforeActivate(r) ==
    \/ run[r].failedAt \in {"clone", "list", "delete", "upload", "setMain",
                            "validateCall", "validateStatus"}
    \/ /\ run[r].validationResponse # <<>>
       /\ run[r].validationResponse[1].status # "ok"

\* C1 (atomic activation): in every run in which clone, the listing, a file
\* deletion, a file upload, set-entry-point or validation has failed (a rejected
\* call or a status other than ok), activateVersion is never called, and once
\* the run has ended the active version of every service is the one it had
\* when the run was launched.
C1_AtomicActivation ==
    \A r \in Runs :
        FailedBeforeActivate(r) =>
            /\ CallsOf(r, "activateVersion") = {}
            /\ Terminal(r) => <<active>> = run[r].activeAtStart

\* C1 witness: a run has ended on a validation status other than ok
C1_Witness ==
    \E r \in Runs : run[r].pc = "failed" /\ run[r].failedAt = "validateStatus"

\* C2 (ordering): a run that ended in success made exactly the calls
\* getServices, cloneVersion, getVcl, one deleteVcl per inherited file, one
\* updateVcl per source file, setVclAsMain, validateVersion, activateVersion,
\* in that order; and in every state an updateVcl has been issued only when
\* every deleteVcl has resolved, setVclAsMain only when every updateVcl has
\* resolved, activateVersion only when validation has answered ok.
C2_Ordering ==
    \A r \in Runs :
        /\ run[r].pc = "done" =>
              /\ Ops(r) = <<"getServices", "cloneVersion", "getVcl">>
                            \o Repeat("deleteVcl", Cardinality(run[r].oldVcl))
                            \o Repeat("updateVcl", Cardinality(run[r].vcls))
                            \o <<"setVclAsMain", "validateVersion", "activateVersion">>
              /\ CallNames(r, "deleteVcl") = run[r].oldVcl
              /\ CallNames(r, "updateVcl") = NamesOf(run[r].vcls)
        /\ CallsOf(r, "updateVcl") # {} => CallNames(r, "deleteVcl") \subseteq run[r].deleted
        /\ CallsOf(r, "setVclAsMain") # {} => CallNames(r, "updateVcl") \subseteq run[r].uploaded
        /\ CallsOf(r, "activateVersion") # {} =>
              /\ run[r].validationResponse # <<>>
              /\ run[r].validationResponse[1].status = "ok"

\* C2 witness: a successful run that deleted two files and uploaded two
C2_Witness ==
    \E r \in Runs :
        /\ run[r].pc = "done"
        /\ Cardinality(run[r].oldVcl) >= 2
        /\ Cardinality(run[r].vcls) >= 2

\* the files of the version run r cloned from
Inherited(r) == versions[ClientService(run[r])][run[r].activeVersion]

\* C3 (no stale files): after a successful run with a non-empty source file
\* set, the active version of the service is the version cloned by the run and
\* its file set is exactly the source file set, names and contents.
C3_NoStaleFiles ==
    \A r \in Runs :
        (run[r].pc = "done" /\ run[r].vcls # {}) =>
            LET s == ClientService(run[r])
            IN  /\ active[s] = run[r].cloned
                /\ versions[s][active[s]] = run[r].vcls

\* C3 witness: a successful run whose inherited files overlap the source
\* files in one name and hold another name the source files do not
C3_Witness ==
    \E r \in Runs :
        /\ run[r].pc = "done"
        /\ NamesOf(Inherited(r)) \cap NamesOf(run[r].vcls) # {}
        /\ NamesOf(Inherited(r)) \ NamesOf(run[r].vcls) # {}

\* C4 (activation guard): in every run activateVersion is called at most
\* once, with the version the run's clone returned, and after validateVersion
\* of that version answered ok; and the active version of a service changes
\* only in the step that ends a pending activateVersion, to the version of
\* that call.
C4_ActivationGuard ==
    /\ [](\A r \in Runs :
            /\ Cardinality(CallsOf(r, "activateVersion")) <= 1
            /\ \A i \in CallsOf(r, "activateVersion") :
                  /\ run[r].cloned # 0
                  /\ run[r].calls[i].version = run[r].cloned
                  /\ run[r].validationResponse # <<>>
                  /\ run[r].validationResponse[1].status = "ok"
                  /\ \E j \in CallsOf(r, "validateVersion") :
                        j < i /\ run[r].calls[j].version = run[r].calls[i].version)
    /\ [][active' # active =>
            \E r \in Runs :
                /\ run[r].pc = "activate"
                /\ run'[r].pc \in {"done", "failed"}
                /\ active' = [active EXCEPT ![ClientService(run[r])] = run[r].cloned]]_vars

\* C4 witness: an activateVersion call is pending
C4_Witness ==
    \E r \in Runs : run[r].pc = "activate" /\ CallsOf(r, "activateVersion") # {}
\* everything the failure report of run r says: the words of its error lines,
\* the payloads logged with them, and the message given to exit
ReportWords(r) ==
    UNION {{run[r].log[i].text[j] : j \in 1..Len(run[r].log[i].text)}
              : i \in {k \in 1..Len(run[r].log) : run[r].log[k].level = "error"}}
        \cup {run[r].exited}
ReportPayloads(r) ==
    UNION {{run[r].log[i].payload[j] : j \in 1..Len(run[r].log[i].payload)}
              : i \in {k \in 1..Len(run[r].log) : run[r].log[k].level = "error"}}

\* C5 (validation distinction), as claimed: a rejected validateVersion call
\* fails the run with a kind of its own, ValidationCallFailed (the error that
\* reaches the handler is the one tagged as a validation error); a status other
\* than ok fails it with the kind ValidationRejected and the report carries the
\* store's response, diagnostics included, verbatim.
C5_ValidationDistinction ==
    \A r \in Runs :
        /\ run[r].failedAt = "validateCall" =>
              \/ run[r].err[1].type = VCL_VALIDATION_ERROR
              \/ "ValidationCallFailed" \in ReportWords(r)
        /\ run[r].failedAt = "validateStatus" =>
              /\ \/ run[r].err[1].type = VCL_VALIDATION_ERROR
                 \/ "ValidationRejected" \in ReportWords(r)
              /\ \/ run[r].validationResponse[1] \in ReportPayloads(r)
                 \/ run[r].validationResponse[1].diagnostics \in ReportWords(r)

C7_ServiceNotFound ==
    \A r \in Runs :
        (/\ run[r].pc \notin {"idle", "gone", "getServices"}
         /\ run[r].serviceId # UNSET
         /\ run[r].serviceId \notin Services
         /\ run[r].err \notin {<<e>> : e \in RemoteErrors})
        => /\ run[r].pc = "failed"
           /\ Len(run[r].calls) = 1
           /\ \/ run[r].err[1].name = "ServiceNotFound"
              \/ "ServiceNotFound" \in ReportWords(r)

\* C8 (retry safety): every run clones from the version that is active when
\* it is launched; every deleteVcl, updateVcl, setVclAsMain, validateVersion and
\* activateVersion of the run is made on the version its own clone created; and
\* that version is none of the versions abandoned by earlier failed runs.
C8_RetrySafety ==
    \A r \in Runs :
        /\ \A i \in CallsOf(r, "cloneVersion") :
              run[r].calls[i].version = run[r].activeAtStart[1][ClientService(run[r])]
        /\ \A i \in 1..Len(run[r].calls) :
              run[r].calls[i].op \in Mutating =>
                  /\ run[r].cloned # 0
                  /\ run[r].calls[i].version = run[r].cloned
        /\ (run[r].cloned # 0 /\ run[r].pc # "failed") =>
              <<ClientService(run[r]), run[r].cloned>> \notin abandoned

\* C8 witness: a run has deployed to a service on which an earlier run has
\* abandoned a version
C8_Witness ==
    \E r \in Runs :
        /\ run[r].pc = "done"
        /\ \E a \in abandoned : a[1] = ClientService(run[r]) /\ a[2] # run[r].cloned

\* C9 (outcome reporting): a run reports nothing before it ends; a run that
\* ends in success has logged the success message after an activateVersion that
\* resolved, and has not called exit; every other run that ends has called
\* exit and has not logged the success message, and when the task was started
\* its error has reached the handler, which logged it and called
\* exit('Bailing...').
C9_OutcomeReporting ==
    \A r \in Runs :
        /\ ~Terminal(r) => (~HasLine(r, "success") /\ run[r].exited = UNSET)
        /\ run[r].pc = "done" =>
              /\ HasLine(r, "success")
              /\ ~HasLine(r, "error")
              /\ run[r].exited = UNSET
              /\ run[r].err = <<>>
              /\ CallsOf(r, "activateVersion") # {}
              /\ active[ClientService(run[r])] = run[r].cloned
        /\ run[r].pc = "failed" =>
              /\ ~HasLine(r, "success")
              /\ run[r].exited # UNSET
              /\ run[r].folder # UNSET =>
                    /\ run[r].err # <<>>
                    /\ HasLine(r, "error")
                    /\ run[r].exited = "Bailing..."

\* C9 witness: a run whose activateVersion was rejected has ended
C9_Witness ==
    \E r \in Runs : run[r].pc = "failed" /\ run[r].failedAt = "activate"

\* the kind the specification gives to a failure of each step, and the
\* client's operation of the step
StepWords(at) ==
    CASE at = "clone" -> {"CloneFailed", "cloneVersion"}
      [] at = "delete" -> {"FileDeletionFailed", "deleteVcl"}
      [] at = "upload" -> {"FileUploadFailed", "updateVcl"}
      [] at = "setMain" -> {"EntryPointFailed", "setVclAsMain"}
      [] at = "activate" -> {"ActivationFailed", "activateVersion"}
      [] OTHER -> {}

\* C10 (failure identification), as claimed: when cloneVersion, a deleteVcl,
\* an updateVcl, setVclAsMain or activateVersion is rejected, the failure report
\* names the step that failed, and for a deleteVcl or updateVcl the file.
C10_FailureIdentification ==
    \A r \in Runs :
        run[r].failedAt \in {"clone", "delete", "upload", "setMain", "activate"} =>
            /\ StepWords(run[r].failedAt) \cap ReportWords(r) # {}
            /\ run[r].failedAt \in {"delete", "upload"} =>
                  run[r].failedFile \in ReportWords(r)

\* C11 (partial upload failure): in a run that has ended because an updateVcl
\* of its fan-out was rejected, the version the run cloned holds every file
\* whose updateVcl resolved, with the content of the source file; that version
\* is not the active one; and the active version of the service is still the
\* version the run cloned from.
C11_PartialUpload ==
    \A r \in Runs :
        (run[r].pc = "failed" /\ run[r].failedAt = "upload") =>
            LET s == ClientService(run[r])
            IN  /\ \A n \in run[r].uploaded :
                      File(n, ContentOf(run[r].vcls, n)) \in versions[s][run[r].cloned]
                /\ active[s] # run[r].cloned
                /\ active[s] = run[r].activeVersion
                /\ <<s, run[r].cloned>> \in abandoned

\* C11 witness: an updateVcl was rejected after another one had resolved
C11_Witness ==
    \E r \in Runs :
        /\ run[r].pc = "failed"
        /\ run[r].failedAt = "upload"
        /\ run[r].uploaded # {}
        /\ run[r].failedFile \notin run[r].uploaded

\* the step of the workflow a call of the client belongs to, and the step a
\* run failed at
StepOf(op) ==
    CASE op = "getServices" -> 1
      [] op = "cloneVersion" -> 2
      [] op = "getVcl" -> 3
      [] op = "deleteVcl" -> 4
      [] op = "updateVcl" -> 5
      [] op = "setVclAsMain" -> 6
      [] op = "validateVersion" -> 7
      [] op = "activateVersion" -> 8
FailedStep(at) ==
    CASE at = "resolve" -> 1
      [] at = "clone" -> 2
      [] at = "list" -> 3
      [] at = "delete" -> 4
      [] at = "upload" -> 5
      [] at = "setMain" -> 6
      [] at \in {"validateCall", "validateStatus"} -> 7
      [] at = "activate" -> 8
      [] OTHER -> 0

\* C12 (fail-stop step barrier): in every run the calls are issued in the
\* order of the steps; an updateVcl is issued only when every deleteVcl has
\* resolved and setVclAsMain only when every updateVcl has resolved; a run that
\* failed at a step has issued no call of a later step (no upload after a
\* failed deletion, no setVclAsMain after a failed upload, no validateVersion
\* after a failed setVclAsMain); no activateVersion is ever made on the version
\* cloned from; and once a run has failed it issues no further call.
C12_FailStop ==
    /\ [](\A r \in Runs :
            /\ \A i, j \in 1..Len(run[r].calls) :
                  i < j => StepOf(run[r].calls[i].op) <= StepOf(run[r].calls[j].op)
            /\ CallsOf(r, "updateVcl") # {} => run[r].deleted = CallNames(r, "deleteVcl")
            /\ CallsOf(r, "setVclAsMain") # {} => run[r].uploaded = CallNames(r, "updateVcl")
            /\ run[r].pc = "failed" =>
                  \A i \in 1..Len(run[r].calls) :
                      StepOf(run[r].calls[i].op) <= FailedStep(run[r].failedAt)
            /\ \A i \in CallsOf(r, "activateVersion") :
                  run[r].calls[i].version # run[r].activeVersion)
    /\ [][\A r \in Runs :
              run[r].pc = "failed" =>
                  \/ run'[r] = Gone
                  \/ run'[r].calls = run[r].calls /\ run'[r].pc = "failed"]_vars

\* C12 witness: a deleteVcl was rejected after another deleteVcl had resolved
C12_Witness ==
    \E r \in Runs :
        /\ run[r].pc = "failed"
        /\ run[r].failedAt = "delete"
        /\ run[r].deleted # {}
        /\ run[r].vcls # {}

\* C13 (the baseline is never mutated): every deleteVcl, updateVcl,
\* setVclAsMain, validateVersion and activateVersion of a run is made on the
\* version number its cloneVersion returned, which is not the activeVersion the
\* run captured; a request left in flight by a failed fan-out is not made on
\* the active version either; and no step changes the file set or the main file
\* of the version a run has captured as its activeVersion.
C13_BaselineUntouched ==
    /\ [](/\ \A r \in Runs :
              /\ run[r].cloned # 0 =>
                    /\ run[r].newVersion = run[r].cloned
                    /\ run[r].cloned # run[r].activeVersion
              /\ \A i \in 1..Len(run[r].calls) :
                    run[r].calls[i].op \in Mutating =>
                        /\ run[r].cloned # 0
                        /\ run[r].calls[i].version = run[r].cloned
                        /\ run[r].calls[i].version # run[r].activeVersion
          /\ \A q \in inflight : q.call.version # active[q.service])
    /\ [][\A r \in Runs :
              run[r].activeVersion # 0 =>
                  LET s == ClientService(run[r])
                      v == run[r].activeVersion
                  IN  /\ versions'[s][v] = versions[s][v]
                      /\ mainOf'[s][v] = mainOf[s][v]]_vars

\* C13 witness: a run that cloned from a version holding files has deleted
\* one of them from its clone and then failed
C13_Witness ==
    \E r \in Runs :
        /\ run[r].pc = "failed"
        /\ run[r].deleted # {}
        /\ run[r].deleted \subseteq NamesOf(Inherited(r))

\* the position of a run in the workflow
Rank(pc) ==
    CASE pc = "idle" -> 0
      [] pc = "getServices" -> 1
      [] pc = "clone" -> 2
      [] pc = "getVcl" -> 3
      [] pc = "deleting" -> 4
      [] pc = "uploading" -> 5
      [] pc = "setMain" -> 6
      [] pc = "validate" -> 7
      [] pc = "activate" -> 8
      [] pc \in {"done", "failed"} -> 9
      [] pc = "gone" -> 10

\* C14 (no retry): within one run no two calls have the same operation and
\* the same file; cloneVersion, setVclAsMain, validateVersion and
\* activateVersion are each called at most once, deleteVcl only for files the
\* listing of the new version returned and updateVcl only for source files;
\* and a run never moves to an earlier step: its position in the workflow never
\* decreases and its calls are only ever added to.
C14_NoRetry ==
    /\ [](\A r \in Runs :
            /\ \A i, j \in 1..Len(run[r].calls) :
                  (/\ i # j
                   /\ run[r].calls[i].op = run[r].calls[j].op)
                      => run[r].calls[i].name # run[r].calls[j].name
            /\ \A op \in {"getServices", "cloneVersion", "getVcl", "setVclAsMain",
                           "validateVersion", "activateVersion"} :
                  Cardinality(CallsOf(r, op)) <= 1
            /\ Cardinality(CallsOf(r, "deleteVcl")) <= Cardinality(run[r].oldVcl)
            /\ CallNames(r, "deleteVcl") \subseteq run[r].oldVcl
            /\ Cardinality(CallsOf(r, "updateVcl")) <= Cardinality(run[r].vcls)
            /\ CallNames(r, "updateVcl") \subseteq NamesOf(run[r].vcls))
    /\ [][\A r \in Runs :
              /\ Rank(run'[r].pc) >= Rank(run[r].pc)
              /\ run'[r].pc # "gone" =>
                    /\ Len(run'[r].calls) >= Len(run[r].calls)
                    /\ SubSeq(run'[r].calls, 1, Len(run[r].calls)) = run[r].calls]_vars

\* C14 witness: a run that made two uploads has failed at validation
C14_Witness ==
    \E r \in Runs :
        /\ run[r].pc = "failed"
        /\ run[r].failedAt \in {"validateCall", "validateStatus"}
        /\ Cardinality(CallsOf(r, "updateVcl")) >= 2

\* C15 (termination): when every call of the client is settled in the end, a
\* run whose cloneVersion has resolved reaches the end of the workflow, either
\* done with the version it cloned active, or failed with that version
\* abandoned or (a rejected activateVersion only) activated by the store all the
\* same; a fan-out one call of which was rejected ends the run at once.
C15_Termination ==
    /\ \A r \in Runs : (run[r].cloned # 0) ~> Terminal(r)
    /\ [](\A r \in Runs :
            (run[r].cloned # 0 /\ Terminal(r)) =>
                LET s == ClientService(run[r])
                IN  \/ run[r].pc = "done" /\ active[s] = run[r].cloned
                    \/ /\ run[r].pc = "failed"
                       /\ <<s, run[r].cloned>> \in abandoned
                       /\ active[s] = run[r].cloned => run[r].failedAt = "activate")

\* C15 witness: a run has ended on a rejected deleteVcl while another
\* deleteVcl of the fan-out was not settled yet
C15_Witness ==
    \E r \in Runs :
        /\ run[r].pc = "failed"
        /\ run[r].failedAt = "delete"
        /\ run[r].pending # {}

\* C16 (entry point present at activation): in every run that has called
\* activateVersion, the version the run cloned holds a file named options.main;
\* a run whose source files hold no file of that name never calls
\* validateVersion or activateVersion and never ends in success, and once it has
\* called setVclAsMain and ended, it has failed at that call.
C16_EntryPointPresent ==
    \A r \in Runs :
        /\ CallsOf(r, "activateVersion") # {} =>
              HasFile(versions, ClientService(run[r]), run[r].cloned, run[r].main)
        /\ (Started(r) /\ run[r].main \notin NamesOf(run[r].vcls)) =>
              /\ CallsOf(r, "validateVersion") = {}
              /\ CallsOf(r, "activateVersion") = {}
              /\ run[r].pc # "done"
              /\ (Terminal(r) /\ CallsOf(r, "setVclAsMain") # {}) =>
                    run[r].failedAt = "setMain"

\* C16 witness: a run with source files, none of them named options.main,
\* has failed at setVclAsMain
C16_Witness ==
    \E r \in Runs :
        /\ run[r].pc = "failed"
        /\ run[r].failedAt = "setMain"
        /\ run[r].vcls # {}
        /\ run[r].main \notin NamesOf(run[r].vcls)

\* C17 (raw validation error): in a run whose validateVersion call was
\* rejected, the error that reached the catch handler is the error of the
\* client, with no type and no validation payload, and the handler logged its
\* stack; and in no run has the handler logged 'VCL Validation Error' or a
\* validation payload.
C17_RawValidationError ==
    \A r \in Runs :
        /\ run[r].failedAt = "validateCall" =>
              /\ run[r].err[1] \in RemoteErrors
              /\ run[r].err[1].type # VCL_VALIDATION_ERROR
              /\ run[r].err[1].validation = <<>>
              /\ run[r].log[Len(run[r].log)] = Line("error", Stack(run[r].err[1]), <<>>)
        /\ "VCL Validation Error" \notin ReportWords(r)
        /\ ReportPayloads(r) = {}

\* C17 witness: a run has ended on a rejected validateVersion call
C17_Witness ==
    \E r \in Runs : run[r].pc = "failed" /\ run[r].failedAt = "validateCall"

\* C18 (service id resolution): in a run that passed the configuration
\* checks, serviceId is the value of the environment variable named by the
\* service parameter when that variable is set and not empty, and the service
\* parameter itself otherwise; and when the run has called cloneVersion, a
\* service with that id exists, the version cloned from is the active version
\* of that service, and the clone was made in that service.
C18_ServiceIdResolution ==
    \A r \in Runs :
        /\ (Started(r) /\ run[r].calls # <<>>) =>
              run[r].serviceId = IF run[r].envService \in {UNSET, ""}
                                 THEN run[r].service
                                 ELSE run[r].envService
        /\ \A i \in CallsOf(r, "cloneVersion") :
              /\ run[r].serviceId \in Services
              /\ ClientService(run[r]) = run[r].serviceId
              /\ run[r].activeVersion = run[r].activeAtStart[1][run[r].serviceId]
              /\ run[r].calls[i].version = run[r].activeVersion
        /\ run[r].cloned # 0 =>
              /\ run[r].cloned <= Len(versions[run[r].serviceId])
              /\ \A s \in Services \ {run[r].serviceId} :
                    Len(versions[s]) = run[r].activeAtStart[1][s]

\* C18 witness: a run given the name of an environment variable that holds
\* the id svc2 has cloned version 2 of svc2
C18_Witness ==
    \E r \in Runs :
        /\ run[r].service = "SVC_VAR"
        /\ run[r].envService = "svc2"
        /\ run[r].serviceId = "svc2"
        /\ run[r].activeVersion = 2
        /\ run[r].cloned = 3

\* C19 (isolation of concurrent deployments): when runs interleave on one
\* service, the runs clone versions of their own, each distinct from the other
\* runs' and from the version it was cloned from; every deleteVcl and updateVcl, issued
\* or left in flight, is made on the version of the run that issued it; the
\* file set of the active version is either that of the version active at the
\* start, or the version cloned by one run holding exactly the source files of
\* that run; and no step changes the file set of the version that is active.
C19_Isolation ==
    /\ [](/\ \A r \in Runs :
              /\ \A i \in CallsOf(r, "deleteVcl") \cup CallsOf(r, "updateVcl") :
                    /\ run[r].cloned # 0
                    /\ run[r].calls[i].version = run[r].cloned
              /\ run[r].cloned # 0 => run[r].cloned # run[r].activeVersion
              /\ \A q \in Runs \ {r} :
                    (/\ run[r].cloned # 0
                     /\ ClientService(run[r]) = ClientService(run[q]))
                        => run[r].cloned # run[q].cloned
          /\ \A q \in inflight :
                \E r \in Runs :
                    /\ q.service = ClientService(run[r])
                    /\ q.call.version = run[r].cloned
                    /\ run[r].pc = "failed"
                    /\ active[q.service] # run[r].cloned
          /\ \A s \in Services :
                \/ /\ \A r \in Runs :
                         run[r].cloned # 0 /\ ClientService(run[r]) = s
                             => active[s] # run[r].cloned
                   /\ \A f \in versions[s][active[s]] : f.content = Content(0)
                \/ \E r \in Runs :
                      /\ ClientService(run[r]) = s
                      /\ active[s] = run[r].cloned
                      /\ versions[s][active[s]] = run[r].vcls)
    /\ [][\A s \in Services :
              /\ versions'[s][active[s]] = versions[s][active[s]]
              /\ versions'[s][active'[s]] = versions[s][active'[s]]]_vars

\* C19 witness: two runs cloned from the same version; one of them has
\* deployed while the other is in the middle of its uploads
C19_Witness ==
    \E r, q \in Runs :
        /\ r # q
        /\ run[r].pc = "done"
        /\ run[q].pc = "uploading"
        /\ run[q].uploaded # {}
        /\ run[q].pending # {}
        /\ ClientService(run[r]) = ClientService(run[q])
        /\ run[r].activeVersion = run[q].activeVersion
====
